---- MODULE Spec2Model ----
(***************************************************************************)
(* The tiered memory coordinator of extensions/memory-mem0/docker/         *)
(* mem0_server.py: the ephemeral tier (Redis keys "stm:..." with a TTL and *)
(* an access count), the durable tier (the mem0 engine), the audit log,    *)
(* the profiles, the embedder cache of the health check, and every request *)
(* handler of the server.                                                  *)
(*                                                                         *)
(* Granularity.  A handler talks to the ephemeral store one command at a   *)
(* time (KEYS, GET, SET, SETEX, DEL).  The store is shared: its own expiry *)
(* of keys and the commands of other request handlers take effect between  *)
(* two commands of one handler.  get_short_term and promote_memories are   *)
(* therefore modelled command by command, each request being run by a      *)
(* worker w whose position is pc[w]; a turn of the promote loop is two     *)
(* steps, the engine's add and the DEL of the key.  add_memory is two      *)
(* steps as well, the SETEX of the entry and the engine's add.  Its first  *)
(* step spans three instants: the clock is read for the key and again for  *)
(* created_at, and the store counts the TTL from the instant it carries    *)
(* out SETEX; the time between them is an input of the action.  The        *)
(* handlers are coroutines without an await: a worker process runs one     *)
(* request at a time, to its end.                                          *)
(*                                                                         *)
(* A run is one of the scopes of Scopes (its owners, messages, handlers,   *)
(* workers, outcomes of lifespan and instants of the clock that are looked *)
(* at); a behaviour stays inside the scope it began in.  last is the step  *)
(* just taken, with its request and its response.                          *)
(*                                                                         *)
(* Specifications.  Spec: every handler, from startup.  SpecLive: Spec     *)
(* with requests that run to their end.  SpecMerge: the merge of a search, *)
(* from stores and engines of up to three entries.  SpecHealth: health     *)
(* checks of two clients and the embedder cache.  SpecPromote: promote     *)
(* passes and adds of two server processes on one store and one engine.    *)
(*                                                                         *)
(* Every store, engine or database call can fail (raise): the outcome of   *)
(* each call is an input of the action that makes it.                      *)
(*                                                                         *)
(* Text is a sequence of characters, each a string of length one.  The     *)
(* metadata of an add request is stored and passed on unread by every      *)
(* handler and is left out of the records.                                 *)
(***************************************************************************)
EXTENDS Integers, Sequences, FiniteSets, TLC

(***************************************************************************)
(* Program constants                                                       *)
(***************************************************************************)
SHORT_TERM_TTL_HOURS == 24
PROMOTION_THRESHOLD == 3
SecondsPerHour == 3600
\* score=0.8 of an ephemeral match, in tenths
ShortTermScore == 8
SHORT_TERM_PREFIX == <<"s", "t", "m", ":">>
\* _embedder_cache["expires"] = now + 300
CACHE_SECONDS == 300

(***************************************************************************)
(* Bounds of the model                                                     *)
(***************************************************************************)
\* clock ticks per second: created_at is finer than the key's timestamp
TicksPerSecond == 2
\* the clock is observed for at most this many ticks after a period
MaxSlack == 2
\* live keys of the ephemeral store
MaxStore == 2
\* records of the durable engine
MaxLtm == 2
\* rows of the audit log
MaxAudit == 3
\* reads stop once an entry has been read this often
MaxAccess == 3

Workers == {"w1", "w2"}

TtlTicks == SHORT_TERM_TTL_HOURS * SecondsPerHour * TicksPerSecond
CacheTicks == CACHE_SECONDS * TicksPerSecond
\* the key has no expiry (Redis TTL -1)
NoExpiry == 0 - 1

(***************************************************************************)
(* Request inputs                                                          *)
(***************************************************************************)
\* user_id: absent (None or "", both falsy), "a", "a:b"
NoUser == <<>>
UserA == <<"a">>
UserAB == <<"a", ":", "b">>
UserIds == {NoUser, UserA, UserAB}
NoAgent == <<>>
AgentG == <<"g">>
AgentIds == {NoAgent, AgentG}
\* session_id: absent, "s"
NoSession == <<>>
SessionS == <<"s">>
\* text is a sequence of characters
RoleUser == <<"u", "s", "e", "r">>
RoleAssistant == <<"a", "s", "s", "i", "s", "t", "a", "n", "t">>
\* "I like Tea"
TextTea == <<"I", " ", "l", "i", "k", "e", " ", "T", "e", "a">>
\* "coffee"
TextCoffee == <<"c", "o", "f", "f", "e", "e">>
MsgTea == << [role |-> RoleUser, content |-> TextTea] >>
MsgCoffee == << [role |-> RoleAssistant, content |-> TextCoffee] >>
MessageLists == {MsgTea, MsgCoffee}

(***************************************************************************)
(* Keys                                                                    *)
(***************************************************************************)
\* request.user_id or 'anon'
OwnerOf(user_id) == IF user_id = <<>> THEN <<"a", "n", "o", "n">> ELSE user_id

\* hashlib.md5(str(messages).encode()).hexdigest()[:8]: one digest token per
\* message list, distinct for the message lists of the model
ContentHash(messages) == IF messages = MsgTea THEN "81b33e99" ELSE "a48d9dcf"

\* datetime.utcnow().strftime("%Y%m%d%H%M%S"): the clock cut to whole seconds
Timestamp(t) == ToString(t \div TicksPerSecond)

\* f"{request.user_id or 'anon'}:{timestamp}:{content_hash}"
MemoryKey(user_id, t, messages) ==
    OwnerOf(user_id) \o <<":", Timestamp(t), ":", ContentHash(messages)>>

\* f"{SHORT_TERM_PREFIX}{key}"
FullKey(key) == SHORT_TERM_PREFIX \o key

\* Redis glob matching of the KEYS command, for patterns made of literal
\* characters and "*"
RECURSIVE GlobMatch(_, _)
GlobMatch(p, s) ==
    IF p = <<>> THEN s = <<>>
    ELSE IF Head(p) = "*"
         THEN GlobMatch(Tail(p), s) \/ (s # <<>> /\ GlobMatch(p, Tail(s)))
         ELSE s # <<>> /\ Head(s) = Head(p) /\ GlobMatch(Tail(p), Tail(s))

(***************************************************************************)
(* Search: keyword match, merge, sort, truncate (search_memories)          *)
(***************************************************************************)
\* the lower-case letter of each upper-case letter
LowerCase ==
    ("A" :> "a") @@
    ("B" :> "b") @@
    ("C" :> "c") @@
    ("D" :> "d") @@
    ("E" :> "e") @@
    ("F" :> "f") @@
    ("G" :> "g") @@
    ("H" :> "h") @@
    ("I" :> "i") @@
    ("J" :> "j") @@
    ("K" :> "k") @@
    ("L" :> "l") @@
    ("M" :> "m") @@
    ("N" :> "n") @@
    ("O" :> "o") @@
    ("P" :> "p") @@
    ("Q" :> "q") @@
    ("R" :> "r") @@
    ("S" :> "s") @@
    ("T" :> "t") @@
    ("U" :> "u") @@
    ("V" :> "v") @@
    ("W" :> "w") @@
    ("X" :> "x") @@
    ("Y" :> "y") @@
    ("Z" :> "z")

\* str.lower() of a character
LowerTok(t) == IF t \in DOMAIN LowerCase THEN LowerCase[t] ELSE t

Lower(text) == [i \in 1..Len(text) |-> LowerTok(text[i])]

\* str(messages) of one message: {'role': '<role>', 'content': '<content>'}
\* (the texts of the model hold no quote and no backslash)
StrMessage(msg) ==
    <<"{", "'", "r", "o", "l", "e", "'", ":", " ", "'">> \o msg.role \o <<"'", ",", " ", "'", "c", "o", "n", "t", "e", "n", "t", "'", ":", " ", "'">>
        \o msg.content \o <<"'", "}">>

\* the dicts of the list, separated by ", "
RECURSIVE StrJoin(_)
StrJoin(messages) ==
    IF messages = <<>> THEN <<>>
    ELSE IF Len(messages) = 1 THEN StrMessage(Head(messages))
    ELSE StrMessage(Head(messages)) \o <<",", " ">> \o StrJoin(Tail(messages))

\* str(messages): the repr of the list of dicts
StrMessages(messages) == <<"[">> \o StrJoin(messages) \o <<"]">>

\* Python's "needle in haystack" for strings
Contains(hay, needle) ==
    \E i \in 0..(Len(hay) - Len(needle)) :
        \A j \in 1..Len(needle) : hay[i + j] = needle[j]

\* str.split(): the words between runs of blanks
RECURSIVE SplitFrom(_, _)
SplitFrom(text, word) ==
    IF text = <<>> THEN (IF word = <<>> THEN <<>> ELSE <<word>>)
    ELSE IF Head(text) = " "
         THEN (IF word = <<>> THEN <<>> ELSE <<word>>) \o SplitFrom(Tail(text), <<>>)
         ELSE SplitFrom(Tail(text), Append(word, Head(text)))

Split(text) == SplitFrom(text, <<>>)

\* query_lower in content or any(word in content for word in query_lower.split())
KeywordMatch(query, messages) ==
    LET query_lower == Lower(query)
        content == Lower(StrMessages(messages))
        words == Split(query_lower)
    IN \/ Contains(content, query_lower)
       \/ \E i \in 1..Len(words) : Contains(content, words[i])

\* format_messages_as_memory: the parts of the user and assistant messages
\* that have a content
RECURSIVE FormatParts(_)
FormatParts(messages) ==
    IF messages = <<>> THEN <<>>
    ELSE LET msg == Head(messages)
             part == IF msg.role = RoleUser /\ msg.content # <<>>
                     THEN << <<"U", "s", "e", "r", " ", "s", "a", "i", "d", ":", " ">> \o msg.content >>
                     ELSE IF msg.role = RoleAssistant /\ msg.content # <<>>
                          THEN << <<"A", "s", "s", "i", "s", "t", "a", "n", "t", " ", "s", "a", "i", "d", ":", " ">> \o msg.content >>
                          ELSE <<>>
         IN part \o FormatParts(Tail(messages))

\* " | ".join(parts)
RECURSIVE JoinParts(_)
JoinParts(parts) ==
    IF Len(parts) = 1 THEN Head(parts)
    ELSE Head(parts) \o <<" ", "|", " ">> \o JoinParts(Tail(parts))

FormatMessagesAsMemory(messages) ==
    IF messages = <<>> \/ FormatParts(messages) = <<>>
    THEN StrMessages(messages)
    ELSE JoinParts(FormatParts(messages))

\* the MemoryResponse built from an ephemeral entry that matched
ShortTermResponse(stm) ==
    [id |-> <<"stm", stm.user_id, stm.created_at>>,
     memory |-> FormatMessagesAsMemory(stm.messages),
     user_id |-> stm.user_id, agent_id |-> stm.agent_id,
     score |-> <<ShortTermScore>>, source |-> "short_term"]

\* the text the durable engine keeps of the messages it was given: its own
\* wording, not that of format_messages_as_memory
EngineMemory(messages) == <<"mem0", messages>>

\* the MemoryResponse built from a result r of the durable engine's search
LongTermResponse(r) ==
    [id |-> <<"ltm", r.id>>, memory |-> EngineMemory(r.messages),
     user_id |-> r.user_id, agent_id |-> r.agent_id,
     score |-> r.score, source |-> "long_term"]

\* the ephemeral part of the results: the entries read that keyword-match
RECURSIVE ShortTermMatches(_, _)
ShortTermMatches(short_term, query) ==
    IF short_term = <<>> THEN <<>>
    ELSE (IF KeywordMatch(query, Head(short_term).messages)
          THEN << ShortTermResponse(Head(short_term)) >> ELSE <<>>)
         \o ShortTermMatches(Tail(short_term), query)

LongTermResults(long_term) == [i \in 1..Len(long_term) |-> LongTermResponse(long_term[i])]

\* key=lambda x: x.score or 0 (a score is <<>> for None, <<n>> for n tenths)
SortKey(x) == IF x.score = <<>> THEN 0 ELSE x.score[1]

\* an insertion that puts x in front of the elements of its own key
RECURSIVE InsertDesc_TiesFirst(_, _)
InsertDesc_TiesFirst(sorted, x) ==
    IF sorted = <<>> THEN <<x>>
    ELSE IF SortKey(Head(sorted)) > SortKey(x)
         THEN <<Head(sorted)>> \o InsertDesc_TiesFirst(Tail(sorted), x)
         ELSE <<x>> \o sorted

\* x put into the descending list sorted, behind every element whose key is
\* at least its own
RECURSIVE InsertDesc(_, _)
InsertDesc(sorted, x) ==
    IF sorted = <<>> THEN <<x>>
    ELSE IF SortKey(Head(sorted)) >= SortKey(x)
         THEN <<Head(sorted)>> \o InsertDesc(Tail(sorted), x)
         ELSE <<x>> \o sorted

\* results.sort(key=..., reverse=True): stable, descending
RECURSIVE SortDescFrom(_, _)
SortDescFrom(sorted, rest) ==
    IF rest = <<>> THEN sorted
    ELSE SortDescFrom(InsertDesc(sorted, Head(rest)), Tail(rest))

SortByScoreDesc(results) == SortDescFrom(<<>>, results)

\* results[:limit]
PySlice(results, limit) ==
    LET n == Len(results)
        m == IF limit >= 0 THEN (IF limit < n THEN limit ELSE n)
             ELSE (IF n + limit > 0 THEN n + limit ELSE 0)
    IN SubSeq(results, 1, m)

\* final: the sorted results cut to the limit
MergeResults(short_matches, long_results, limit) ==
    PySlice(SortByScoreDesc(short_matches \o long_results), limit)

CountSource(final, src) == Cardinality({i \in 1..Len(final) : final[i].source = src})

SearchResponse(final) ==
    [memories |-> final, count |-> Len(final),
     short_count |-> CountSource(final, "short_term"),
     long_count |-> CountSource(final, "long_term")]

(***************************************************************************)
(* State                                                                   *)
(***************************************************************************)
VARIABLES
    redis_client,   \* TRUE iff lifespan connected the ephemeral store
    memory,         \* TRUE iff lifespan initialized the durable engine
    DbSession,      \* TRUE iff lifespan connected the audit database
    now,            \* the clock, in ticks
    store,          \* the ephemeral store: full key -> entry
    ltm,            \* the durable engine's records, in the order added
    ltm_next,       \* the next id the durable engine assigns
    audit,          \* the memory_history table, in the order appended
    embedder_cache, \* _embedder_cache: ok, info, expires
    profiles,       \* the user_profiles and agent_profiles tables
    pc,             \* each worker's position in its request
    loc,            \* each worker's request and local variables
    last,           \* the step just taken: its calls and, at the end of a
                    \* request, the response
    scope           \* the clients of this run: the endpoints they call and
                    \* the principals and messages they send

vars == <<redis_client, memory, DbSession, now, store, ltm, ltm_next, audit,
          embedder_cache, profiles, pc, loc, last, scope>>

\* everything but the step just taken
vars_but_last == <<redis_client, memory, DbSession, now, store, ltm, ltm_next, audit,
                   embedder_cache, profiles, pc, loc, scope>>

\* _embedder_cache = {"ok": None, "info": {}, "expires": 0.0}
NoCache == [ok |-> <<>>, info |-> <<>>, expires |-> 0]

\* no profile has been written
NoProfiles == [user |-> <<>>, agent |-> <<>>]

IdleLoc == [op |-> "none", user |-> <<>>, include |-> FALSE, keys |-> {}, key |-> <<>>,
            parsed |-> <<>>, results |-> <<>>, request |-> <<>>, ids |-> <<>>,
            promotable |-> <<>>,
            promoted |-> <<>>]

\* lifespan: each subsystem is connected or not; nothing is stored yet
Startup ==
    /\ \E c \in scope.configs :
          redis_client = c[1] /\ memory = c[2] /\ DbSession = c[3]
    /\ now = 0
    /\ store = <<>>
    /\ ltm = <<>>
    /\ ltm_next = 1
    /\ audit = <<>>
    /\ embedder_cache = NoCache
    /\ profiles = NoProfiles
    /\ pc = [w \in Workers |-> "idle"]
    /\ loc = [w \in Workers |-> IdleLoc]

AllConfigs == BOOLEAN \X BOOLEAN \X BOOLEAN

\* the endpoints that write, read and promote memories
MemoryOps == {"add", "search", "user", "agent", "promote"}

\* one entry from its add to its expiry, under every outcome of lifespan
ScopeLife ==
    [principals |-> {<<UserA, NoAgent, NoSession>>}, messages |-> {MsgTea},
     ops |-> MemoryOps,
     workers |-> {"w1"}, configs |-> AllConfigs,
     max_store |-> MaxStore - 1, max_ltm |-> MaxLtm, max_time |-> TtlTicks,
     period |-> TtlTicks, slack |-> 0, early |-> 0]

\* adds and reads of one owner while the clock goes from one second into
\* the next
ScopeClock ==
    [principals |-> {<<UserA, NoAgent, NoSession>>}, messages |-> {MsgTea},
     ops |-> {"add", "search"},
     workers |-> {"w1"}, configs |-> {<<TRUE, TRUE, FALSE>>},
     max_store |-> MaxStore, max_ltm |-> MaxLtm - 1, max_time |-> MaxSlack,
     period |-> TtlTicks, slack |-> MaxSlack, early |-> 0]

\* entries of several owners side by side
ScopeOwners ==
    [principals |-> {<<UserA, NoAgent, NoSession>>, <<UserAB, NoAgent, NoSession>>},
     messages |-> {MsgTea},
     ops |-> MemoryOps,
     workers |-> {"w1"}, configs |-> {<<TRUE, TRUE, FALSE>>},
     max_store |-> MaxStore, max_ltm |-> MaxLtm - 1, max_time |-> 0,
     period |-> TtlTicks, slack |-> 0, early |-> 0]

\* a memory added without a user, by an agent in a session
ScopeAnon ==
    [principals |-> {<<NoUser, AgentG, SessionS>>}, messages |-> {MsgCoffee},
     ops |-> MemoryOps,
     workers |-> {"w1"}, configs |-> {<<TRUE, TRUE, TRUE>>},
     max_store |-> MaxStore - 1, max_ltm |-> MaxLtm - 1, max_time |-> 0,
     period |-> TtlTicks, slack |-> 0, early |-> 0]

\* several entries of one owner, promoted in one pass
ScopeBatch ==
    [principals |-> {<<UserA, NoAgent, NoSession>>}, messages |-> {MsgTea, MsgCoffee},
     ops |-> MemoryOps,
     workers |-> {"w1"}, configs |-> {<<TRUE, TRUE, FALSE>>},
     max_store |-> MaxStore, max_ltm |-> MaxLtm, max_time |-> 0,
     period |-> TtlTicks, slack |-> 0, early |-> 0]

\* the memories of one user and agent over a day, their deletion, the stats
\* and the history, under every outcome of lifespan
ScopeAdmin ==
    [principals |-> {<<UserA, AgentG, NoSession>>}, messages |-> {MsgTea},
     ops |-> {"add", "search", "promote", "delete", "stats", "history"},
     workers |-> {"w1"}, configs |-> AllConfigs,
     max_store |-> MaxStore - 1, max_ltm |-> MaxLtm - 1, max_time |-> TtlTicks,
     period |-> TtlTicks, slack |-> 0, early |-> 0]

\* the profiles of a user and an agent, with and without the database
ScopeProfiles ==
    [principals |-> {}, messages |-> {},
     ops |-> {"profile"},
     workers |-> {"w1"}, configs |-> {<<TRUE, TRUE, TRUE>>, <<TRUE, TRUE, FALSE>>},
     max_store |-> 0, max_ltm |-> 0, max_time |-> 1,
     period |-> TtlTicks, slack |-> 1, early |-> 0]

\* the health of the server beside its stats, under every outcome of
\* lifespan, over a window of the embedder cache
ScopeServer ==
    [principals |-> {}, messages |-> {},
     ops |-> {"health", "stats"},
     workers |-> {"w1"}, configs |-> AllConfigs,
     max_store |-> 0, max_ltm |-> 0, max_time |-> CacheTicks,
     period |-> CacheTicks, slack |-> 0, early |-> 0]

\* the runs checked with one request in flight at a time
Scopes == {ScopeLife, ScopeClock, ScopeOwners, ScopeAnon, ScopeBatch, ScopeAdmin, ScopeProfiles, ScopeServer}

Init == scope \in Scopes /\ Startup /\ last = [op |-> "init"]

(***************************************************************************)
(* The ephemeral store                                                     *)
(***************************************************************************)
Exists(k) == k \in DOMAIN store

\* the store s with key k set to entry e
PutIn(s, k, e) == [x \in (DOMAIN s) \cup {k} |-> IF x = k THEN e ELSE s[x]]

StorePut(k, e) == PutIn(store, k, e)

\* the store without key k (DEL of an absent key changes nothing)
StoreDel(k) == [x \in (DOMAIN store) \ {k} |-> store[x]]

\* KEYS pattern
Keys(pattern) == {k \in DOMAIN store : GlobMatch(pattern, k)}

\* Redis never shows a key whose expiry has passed
Expired(e, t) == e.expires # NoExpiry /\ e.expires <= t

\* the store when the clock shows t: the keys whose expiry is reached are gone
StoreAt(t) == [x \in {k \in DOMAIN store : ~Expired(store[k], t)} |-> store[x]]

\* The clock is observed only within scope.slack ticks after a whole number
\* of periods of the scope (the TTL, or the window of the embedder cache) and
\* in the scope.early ticks before it: the steps in between are taken in one
\* jump.
Observed(t) ==
    /\ t <= scope.max_time
    /\ \/ t % scope.period <= scope.slack
       \/ t % scope.period >= scope.period - scope.early

\* The clock advances by d ticks.
Tick(d) ==
    /\ Observed(now + d)
    /\ now' = now + d
    /\ store' = StoreAt(now + d)
    /\ last' = [op |-> "tick"]
    /\ UNCHANGED <<redis_client, memory, DbSession, embedder_cache, profiles, ltm, ltm_next, audit, pc, loc, scope>>

(***************************************************************************)
(* log_operation                                                           *)
(***************************************************************************)
\* a log_operation that appends whatever the state of the database
LogOperation_Always(log, operation, user_id, agent_id, content_hash, tier, ok) ==
    Append(log, [operation |-> operation, user_id |-> user_id,
                 agent_id |-> agent_id, content_hash |-> content_hash,
                 memory_tier |-> tier])

\* the audit log after log_operation(operation, ..., memory_tier): nothing is
\* appended without a session factory or when the insert raises
LogOperation(log, operation, user_id, agent_id, content_hash, tier, ok) ==
    IF DbSession /\ ok
    THEN Append(log, [operation |-> operation, user_id |-> user_id,
                      agent_id |-> agent_id, content_hash |-> content_hash,
                      memory_tier |-> tier])
    ELSE log

(***************************************************************************)
(* store_short_term                                                        *)
(***************************************************************************)
\* the entry written by store_short_term: created_at is the clock when the
\* data is made (t), access_count is 0, and the expiry of the key is counted
\* by the store from the instant it carries out SETEX (x)
NewEntry(user_id, agent_id, session_id, messages, t, x) ==
    [messages |-> messages, user_id |-> user_id, agent_id |-> agent_id,
     session_id |-> session_id,
     created_at |-> t, access_count |-> 0,
     expires |-> x + TtlTicks]

\* what an add writes: add_memory reads the clock at t for the timestamp of
\* the key, store_short_term reads it again d ticks later for created_at, and
\* the store carries out SETEX e ticks after that
Written(user_id, agent_id, session_id, messages, t, d, e) ==
    [key |-> FullKey(MemoryKey(user_id, t, messages)),
     entry |-> NewEntry(user_id, agent_id, session_id, messages, t + d, t + d + e)]

\* a store_short_term that does not look at redis_client
StoreShortTermOk_Blind(ok) == ok

\* the return value of store_short_term; ok is the outcome of SETEX
StoreShortTermOk(ok) == redis_client /\ ok

(***************************************************************************)
(* The durable engine (mem0)                                               *)
(***************************************************************************)
\* the engine's records after a successful memory.add
LtmAdd(messages, user_id, agent_id, run_id) ==
    Append(ltm, [id |-> ltm_next, messages |-> messages, user_id |-> user_id,
                 agent_id |-> agent_id, run_id |-> run_id])

\* the records memory.search sees for the filters it is given: user_id,
\* agent_id and run_id, each only when the request has it
LtmSearch(user_id, agent_id, run_id) ==
    SelectSeq(ltm, LAMBDA r : /\ user_id = <<>> \/ r.user_id = user_id
                              /\ agent_id = <<>> \/ r.agent_id = agent_id
                              /\ run_id = <<>> \/ r.run_id = run_id)

\* the records memory.get_all sees for a user, and for an agent
LtmOfUser(user_id) == SelectSeq(ltm, LAMBDA r : r.user_id = user_id)

LtmOfAgent(agent_id) == SelectSeq(ltm, LAMBDA r : r.agent_id = agent_id)

\* durable adds the request of worker w may still make: for the keys a
\* promote pass has still to read those that are eligible, and the records it
\* has scanned and not yet added; the one add of an add_memory that has
\* written the ephemeral store
PassAdds(w) ==
    IF pc[w] = "scan_get"
    THEN Cardinality({k \in loc[w].keys :
                          k \in DOMAIN store /\ store[k].access_count >= PROMOTION_THRESHOLD})
             + Len(loc[w].promotable)
    ELSE IF pc[w] = "promote_add" THEN Len(loc[w].promotable)
    ELSE IF pc[w] = "promote_del" THEN Len(loc[w].promotable) - 1
    ELSE IF pc[w] = "add_ltm" THEN 1
    ELSE 0

RECURSIVE SumPassAdds(_)
SumPassAdds(ws) ==
    IF ws = {} THEN 0
    ELSE LET w == CHOOSE x \in ws : TRUE
         IN PassAdds(w) + SumPassAdds(ws \ {w})

InFlightAdds == SumPassAdds(Workers)

\* durable adds made so far
IssuedAdds == ltm_next - 1

(***************************************************************************)
(* POST /memories/add                                                      *)
(***************************************************************************)
\* an add that calls the engine whatever short_term_only says
AddCallsLongTerm_Always(short_term_only) == memory

\* the durable write is attempted
AddCallsLongTerm(short_term_only) == ~short_term_only /\ memory

\* the response of add_memory, with the request and the outcomes of its calls
AddResponse(w, request, ltm_called, ltm_ok, log2_ok) ==
    [op |-> "add", w |-> w, status |-> 200,
     user |-> request.user, agent |-> request.agent, session |-> request.session,
     messages |-> request.messages,
     short_term_only |-> request.short_term_only, d |-> request.d, e |-> request.e,
     redis_ok |-> request.redis_ok, ltm_called |-> ltm_called,
     ltm_ok |-> ltm_ok, log_ok |-> request.log_ok, log2_ok |-> log2_ok,
     success |-> TRUE, short_term |-> request.short_term,
     long_term |-> ltm_called /\ ltm_ok,
     memory_key |-> request.memory_key]

\* add_memory up to the call of the engine: the key, store_short_term and the
\* audit entry of the ephemeral write; the request is answered here when the
\* engine is not called.  d: the ticks of the clock between the timestamp of
\* the key (line 429) and created_at (line 310); e: the ticks between
\* created_at and the instant the store carries out SETEX (line 312).
AddMemory(w, user_id, agent_id, session_id, messages, short_term_only, d, e, redis_ok, log_ok) ==
    LET written == Written(user_id, agent_id, session_id, messages, now, d, e)
        memory_key == MemoryKey(user_id, now, messages)
        content_hash == ContentHash(messages)
        redis_stored == StoreShortTermOk(redis_ok)
        ltm_called == AddCallsLongTerm(short_term_only)
        request == [user |-> user_id, agent |-> agent_id, session |-> session_id,
                    messages |-> messages, short_term_only |-> short_term_only,
                    d |-> d, e |-> e, redis_ok |-> redis_ok, log_ok |-> log_ok,
                    short_term |-> redis_stored,
                    memory_key |-> IF redis_stored THEN memory_key ELSE <<>>]
    IN /\ pc[w] = "idle"
       /\ w \in scope.workers
       /\ "add" \in scope.ops
       \* bounds of the model
       /\ Cardinality(DOMAIN store \cup {written.key}) <= scope.max_store
       /\ IssuedAdds + InFlightAdds < scope.max_ltm
       /\ Len(audit) + 2 <= MaxAudit
       /\ d + e = 0 \/ Observed(now + d + e)
       \* an outcome is an input only of a call that is made
       /\ redis_client \/ redis_ok
       /\ redis_stored \/ d + e = 0
       /\ (DbSession /\ redis_stored) \/ log_ok
       /\ now' = now + d + e
       /\ store' = IF redis_stored
                   THEN PutIn(StoreAt(now + d + e), written.key, written.entry)
                   ELSE store
       /\ audit' = IF redis_stored
                   THEN LogOperation(audit, "add", user_id, agent_id,
                                     content_hash, "short_term", log_ok)
                   ELSE audit
       /\ IF ltm_called
          THEN /\ pc' = [pc EXCEPT ![w] = "add_ltm"]
               /\ loc' = [loc EXCEPT ![w] = [IdleLoc EXCEPT !.op = "add",
                                                            !.user = user_id,
                                                            !.request = <<request>>]]
               /\ last' = [op |-> "add_store", w |-> w,
                           user |-> user_id, agent |-> agent_id,
                           session |-> session_id, messages |-> messages,
                           short_term_only |-> short_term_only, d |-> d, e |-> e,
                           redis_ok |-> redis_ok, log_ok |-> log_ok,
                           short_term |-> redis_stored,
                           memory_key |-> request.memory_key]
          ELSE /\ UNCHANGED <<pc, loc>>
               /\ last' = AddResponse(w, request, FALSE, TRUE, TRUE)
       /\ UNCHANGED <<redis_client, memory, DbSession, embedder_cache, profiles, ltm, ltm_next, scope>>

\* add_memory from the call of the engine: memory.add, the audit entry of
\* the durable write, and the response
AddLongTerm(w, ltm_ok, log2_ok) ==
    /\ pc[w] = "add_ltm"
    /\ (DbSession /\ ltm_ok) \/ log2_ok
    /\ LET request == loc[w].request[1]
       IN /\ ltm' = IF ltm_ok
                    THEN LtmAdd(request.messages, request.user, request.agent,
                                request.session)
                    ELSE ltm
          /\ ltm_next' = IF ltm_ok THEN ltm_next + 1 ELSE ltm_next
          /\ audit' = IF ltm_ok
                      THEN LogOperation(audit, "add", request.user, request.agent,
                                        ContentHash(request.messages), "long_term",
                                        log2_ok)
                      ELSE audit
          /\ last' = AddResponse(w, request, TRUE, ltm_ok, log2_ok)
    /\ pc' = [pc EXCEPT ![w] = "idle"]
    /\ loc' = [loc EXCEPT ![w] = IdleLoc]
    /\ UNCHANGED <<redis_client, memory, DbSession, embedder_cache, profiles, now, store, scope>>

(***************************************************************************)
(* get_short_term, command by command                                      *)
(***************************************************************************)
\* a get_short_term that returns what it has read so far, whatever it is given
Returned_Keeps(w, results) ==
    /\ pc' = [pc EXCEPT ![w] = "long_term"]
    /\ loc' = [loc EXCEPT ![w].keys = {}, ![w].key = <<>>, ![w].parsed = <<>>]

\* get_short_term has returned: the handler goes on to the durable tier
Returned(w, results) ==
    /\ pc' = [pc EXCEPT ![w] = "long_term"]
    /\ loc' = [loc EXCEPT ![w].keys = {}, ![w].key = <<>>, ![w].parsed = <<>>,
                          ![w].results = results]

\* keys = redis_client.keys(f"{SHORT_TERM_PREFIX}{pattern}*")
GetShortTermKeys(w, op, user_id, call, pattern, keys_ok) ==
    /\ pc[w] = "idle"
    /\ w \in scope.workers
    /\ op \in scope.ops
    /\ \A k \in DOMAIN store : store[k].access_count < MaxAccess
    /\ (call /\ redis_client) \/ keys_ok
    /\ LET keys == Keys(SHORT_TERM_PREFIX \o pattern \o <<"*">>)
       IN IF call /\ redis_client /\ keys_ok /\ keys # {}
          THEN /\ pc' = [pc EXCEPT ![w] = "gst_get"]
               /\ loc' = [loc EXCEPT ![w] = [IdleLoc EXCEPT !.op = op, !.user = user_id,
                                                            !.include = call,
                                                            !.keys = keys]]
          ELSE /\ pc' = [pc EXCEPT ![w] = "long_term"]
               /\ loc' = [loc EXCEPT ![w] = [IdleLoc EXCEPT !.op = op, !.user = user_id,
                                                            !.include = call]]
    /\ last' = [op |-> "keys", w |-> w, ok |-> keys_ok]
    /\ UNCHANGED <<redis_client, memory, DbSession, embedder_cache, profiles, now, store, ltm, ltm_next,
                   audit, scope>>

\* data = redis_client.get(key); parsed["access_count"] += 1
GetShortTermGet(w, k, ok) ==
    /\ pc[w] = "gst_get"
    /\ k \in loc[w].keys
    /\ IF ~ok
       THEN Returned(w, <<>>)
       ELSE IF ~Exists(k)
            THEN IF loc[w].keys = {k}
                 THEN Returned(w, loc[w].results)
                 ELSE /\ loc' = [loc EXCEPT ![w].keys = @ \ {k}]
                      /\ UNCHANGED pc
            ELSE /\ pc' = [pc EXCEPT ![w] = "gst_set"]
                 /\ loc' = [loc EXCEPT ![w].key = k,
                               ![w].parsed = << [store[k] EXCEPT !.access_count = @ + 1] >>]
    /\ last' = [op |-> "get", w |-> w, ok |-> ok]
    /\ UNCHANGED <<redis_client, memory, DbSession, embedder_cache, profiles, now, store, ltm, ltm_next,
                   audit, scope>>

\* a SET that leaves the store as it is
SetKeepTtl_Lost(k, value) == store

\* SET key value KEEPTTL: the value is replaced and the key keeps the expiry
\* it has; a key that does not exist is created, with no expiry
SetKeepTtl(k, value) ==
    StorePut(k, [value EXCEPT !.expires = IF Exists(k) THEN store[k].expires
                                          ELSE NoExpiry])

\* redis_client.set(key, json.dumps(parsed), keepttl=True); results.append(parsed)
GetShortTermSet(w, ok) ==
    /\ pc[w] = "gst_set"
    /\ LET k == loc[w].key
           parsed == loc[w].parsed[1]
       IN IF ~ok
          THEN /\ Returned(w, <<>>)
               /\ UNCHANGED store
          ELSE /\ store' = SetKeepTtl(k, parsed)
               /\ IF loc[w].keys = {k}
                  THEN Returned(w, Append(loc[w].results, parsed))
                  ELSE /\ pc' = [pc EXCEPT ![w] = "gst_get"]
                       /\ loc' = [loc EXCEPT ![w].keys = @ \ {k}, ![w].key = <<>>,
                                     ![w].parsed = <<>>,
                                     ![w].results = Append(@, parsed)]
    /\ last' = [op |-> "set", w |-> w, ok |-> ok, key |-> loc[w].key]
    /\ UNCHANGED <<redis_client, memory, DbSession, embedder_cache, profiles, now, ltm, ltm_next, audit, scope>>

(***************************************************************************)
(* POST /memories/search                                                   *)
(***************************************************************************)
\* scores the durable engine gives: None, 0.5, 0.8, 0.9 (in tenths)
EngineScores == {<<>>, <<5>>, <<8>>, <<9>>}

\* the first k of the engine's records, each with the score the engine gives
Scored(records, k, sc) == [i \in 1..k |-> [id |-> records[i].id,
                                            messages |-> records[i].messages,
                                            user_id |-> records[i].user_id,
                                            agent_id |-> records[i].agent_id,
                                            score |-> sc[i]]]

\* if request.include_short_term and redis_client: get_short_term(user_id or "*")
SearchBegin(w, user_id, include_short_term, keys_ok) ==
    GetShortTermKeys(w, "search", user_id, include_short_term,
                     IF user_id = <<>> THEN <<"*">> ELSE user_id, keys_ok)

\* the keyword filter, memory.search, the sort, the cut and the response;
\* the engine is asked for the records of the user, the agent and the run
\* (request.session_id) the request names, and returns k of them with scores
\* sc, or raises
SearchFinish(w, query, agent_id, session_id, limit, ltm_ok, k, sc) ==
    /\ pc[w] = "long_term"
    /\ loc[w].op = "search"
    /\ memory \/ ltm_ok
    /\ (memory /\ ltm_ok) \/ k = 0
    /\ k <= Len(LtmSearch(loc[w].user, agent_id, session_id))
    /\ limit < 0 \/ k <= limit
    /\ LET short_matches == ShortTermMatches(loc[w].results, query)
           long_results == LongTermResults(
                               Scored(LtmSearch(loc[w].user, agent_id, session_id), k, sc))
           final == MergeResults(short_matches, long_results, limit)
       IN last' = [op |-> "search", w |-> w, status |-> 200,
                   user |-> loc[w].user, agent |-> agent_id, session |-> session_id,
                   include |-> loc[w].include,
                   query |-> query, limit |-> limit,
                   ltm_called |-> memory, ltm_ok |-> ltm_ok,
                   read |-> loc[w].results,
                   merged |-> short_matches \o long_results,
                   response |-> SearchResponse(final)]
    /\ pc' = [pc EXCEPT ![w] = "idle"]
    /\ loc' = [loc EXCEPT ![w] = IdleLoc]
    /\ UNCHANGED <<redis_client, memory, DbSession, embedder_cache, profiles, now, store, ltm, ltm_next,
                   audit, scope>>

(***************************************************************************)
(* GET /memories/user/{user_id}                                            *)
(***************************************************************************)
\* if include_short_term: get_short_term(user_id)
UserBegin(w, user_id, include_short_term, keys_ok) ==
    /\ user_id # <<>>
    /\ GetShortTermKeys(w, "user", user_id, include_short_term, user_id, keys_ok)

UserShortTerm(user_id, short_term) ==
    [i \in 1..Len(short_term) |->
        [id |-> <<"stm", user_id, short_term[i].created_at>>,
         memory |-> FormatMessagesAsMemory(short_term[i].messages),
         source |-> "short_term",
         access_count |-> short_term[i].access_count,
         created_at |-> short_term[i].created_at]]

\* {"id": ..., "memory": ..., "source": "long_term", **ltm}
UserLongTerm(long_term) ==
    [i \in 1..Len(long_term) |->
        [id |-> <<"ltm", long_term[i].id>>,
         memory |-> EngineMemory(long_term[i].messages),
         source |-> "long_term",
         user_id |-> long_term[i].user_id,
         agent_id |-> long_term[i].agent_id]]

\* memory.get_all(user_id=user_id, limit=limit) and the response
UserFinish(w, limit, ltm_ok) ==
    /\ pc[w] = "long_term"
    /\ loc[w].op = "user"
    /\ memory \/ ltm_ok
    /\ LET long_term == IF memory /\ ltm_ok
                        THEN PySlice(LtmOfUser(loc[w].user), limit) ELSE <<>>
       IN last' = [op |-> "user", w |-> w, status |-> 200,
                   user |-> loc[w].user, include |-> loc[w].include,
                   limit |-> limit,
                   ltm_called |-> memory, ltm_ok |-> ltm_ok,
                   read |-> loc[w].results,
                   memories |-> UserShortTerm(loc[w].user, loc[w].results)
                                    \o UserLongTerm(long_term)]
    /\ pc' = [pc EXCEPT ![w] = "idle"]
    /\ loc' = [loc EXCEPT ![w] = IdleLoc]
    /\ UNCHANGED <<redis_client, memory, DbSession, embedder_cache, profiles, now, store, ltm, ltm_next,
                   audit, scope>>

(***************************************************************************)
(* GET /memories/agent/{agent_id}                                          *)
(***************************************************************************)
\* a record of the engine as get_all gives it
EngineResult(r) ==
    [id |-> <<"ltm", r.id>>, memory |-> EngineMemory(r.messages),
     user_id |-> r.user_id, agent_id |-> r.agent_id]

\* a retrieval that also reads the agent's entries of the ephemeral store
AgentResults_WithShortTerm(agent_id, limit) ==
    LET ks == {k \in DOMAIN store : store[k].agent_id = agent_id}
        records == LtmOfAgent(agent_id)
    IN PySlice((IF ks = {} THEN <<>> ELSE << store[CHOOSE k \in ks : TRUE] >>)
                   \o [i \in 1..Len(records) |-> EngineResult(records[i])], limit)

\* results = memory.get_all(agent_id=agent_id, limit=limit): the engine's
\* records of the agent, as the engine gives them
AgentResults(agent_id, limit) ==
    LET records == PySlice(LtmOfAgent(agent_id), limit)
    IN [i \in 1..Len(records) |-> EngineResult(records[i])]

\* 503 without the engine, 500 when get_all raises, else the engine's records
AgentMemories(w, agent_id, limit, ltm_ok) ==
    /\ pc[w] = "idle"
    /\ w \in scope.workers
    /\ "agent" \in scope.ops
    /\ agent_id # <<>>
    /\ memory \/ ltm_ok
    /\ last' = [op |-> "agent", w |-> w, agent |-> agent_id, limit |-> limit,
                status |-> IF ~memory THEN 503 ELSE IF ltm_ok THEN 200 ELSE 500,
                ltm_called |-> memory, ltm_ok |-> ltm_ok,
                memories |-> IF memory /\ ltm_ok THEN AgentResults(agent_id, limit)
                             ELSE <<>>]
    /\ UNCHANGED <<redis_client, memory, DbSession, embedder_cache, profiles, now, store, ltm, ltm_next,
                   audit, pc, loc, scope>>

(***************************************************************************)
(* get_promotable_memories and POST /memories/promote, command by command  *)
(***************************************************************************)
\* pattern = f"{SHORT_TERM_PREFIX}{user_id or '*'}:*"
PromotablePattern(user_id) ==
    SHORT_TERM_PREFIX \o (IF user_id = <<>> THEN <<"*">> ELSE user_id) \o <<":", "*">>

\* parsed.get("access_count", 0) >= PROMOTION_THRESHOLD
Eligible(e) == e.access_count >= PROMOTION_THRESHOLD

\* a pass without the check of the engine
PromoteRuns_Always == TRUE

\* the engine is there: the pass starts
PromoteRuns == memory

\* PromoteRequest.memory_ids: None, or a list of ids held here as <<set>>
NoIds == <<>>

\* the response of a pass: promoted_count = len(promoted)
PromoteResponse(status, promoted) ==
    [status |-> status, promoted |-> promoted, promoted_count |-> Len(promoted)]

\* if not memory: 503; get_promotable_memories(request.user_id) up to
\* keys = redis_client.keys(pattern).  Without the store, when KEYS raises or
\* when it finds no key the scan returns [] and the pass is answered at once.
\* The handler never reads request.memory_ids.
PromoteBegin(w, user_id, memory_ids, keys_ok) ==
    /\ pc[w] = "idle"
    /\ w \in scope.workers
    /\ "promote" \in scope.ops
    /\ (PromoteRuns /\ redis_client) \/ keys_ok
    /\ LET keys == IF PromoteRuns /\ redis_client /\ keys_ok
                   THEN Keys(PromotablePattern(user_id)) ELSE {}
       IN /\ IssuedAdds + InFlightAdds
                 + Cardinality({k \in keys : Eligible(store[k])}) <= scope.max_ltm
          /\ IF keys = {}
             THEN /\ UNCHANGED <<pc, loc>>
                  /\ last' = [op |-> "promote", w |-> w, user |-> user_id,
                              memory_ids |-> memory_ids, keys_ok |-> keys_ok,
                              keys |-> {},
                              response |-> PromoteResponse(IF PromoteRuns THEN 200
                                                           ELSE 503, <<>>)]
             ELSE /\ pc' = [pc EXCEPT ![w] = "scan_get"]
                  /\ loc' = [loc EXCEPT ![w] = [IdleLoc EXCEPT !.op = "promote",
                                                   !.user = user_id, !.ids = memory_ids,
                                                   !.keys = keys]]
                  /\ last' = [op |-> "scan_keys", w |-> w, user |-> user_id,
                              memory_ids |-> memory_ids, keys_ok |-> keys_ok,
                              keys |-> keys]
    /\ UNCHANGED <<redis_client, memory, DbSession, embedder_cache, profiles, now, store, ltm, ltm_next,
                   audit, scope>>

\* data = redis_client.get(key) of the scan, for one of the keys KEYS gave:
\* a key that is gone is passed over, an entry that is eligible is taken with
\* its redis_key; a GET that raises makes the scan return [].  After the last
\* key the loop over promotable starts, or, with nothing to promote, the pass
\* is answered.
PromoteScanGet(w, k, ok) ==
    /\ pc[w] = "scan_get"
    /\ k \in loc[w].keys
    /\ LET taken == ok /\ Exists(k) /\ Eligible(store[k])
           promotable == IF ~ok THEN <<>>
                         ELSE IF taken
                              THEN Append(loc[w].promotable,
                                          [redis_key |-> k, entry |-> store[k]])
                              ELSE loc[w].promotable
           rest == IF ok THEN loc[w].keys \ {k} ELSE {}
       IN /\ IF rest # {}
             THEN /\ UNCHANGED pc
                  /\ loc' = [loc EXCEPT ![w].keys = rest, ![w].promotable = promotable]
             ELSE IF promotable = <<>>
                  THEN /\ pc' = [pc EXCEPT ![w] = "idle"]
                       /\ loc' = [loc EXCEPT ![w] = IdleLoc]
                  ELSE /\ pc' = [pc EXCEPT ![w] = "promote_add"]
                       /\ loc' = [loc EXCEPT ![w].keys = {},
                                             ![w].promotable = promotable]
          /\ last' = [op |-> "scan_get", w |-> w, user |-> loc[w].user,
                      memory_ids |-> loc[w].ids, key |-> k, ok |-> ok, taken |-> taken,
                      scan_done |-> rest = {}, scanned |-> promotable,
                      done |-> rest = {} /\ promotable = <<>>,
                      response |-> PromoteResponse(200, <<>>)]
    /\ UNCHANGED <<redis_client, memory, DbSession, embedder_cache, profiles, now, store, ltm, ltm_next,
                   audit, scope>>

\* a turn that adds only a record whose key is still in the store
PromoteAdds_IfPresent(mem, add_ok) == add_ok /\ mem.redis_key \in DOMAIN store

\* memory.add is called with the scanned copy of the record, whatever the
\* store holds by now; add_ok is the outcome of the call
PromoteAdds(mem, add_ok) == add_ok

\* a pass that ends at the first turn that raises
PromoteRest_Abort(w, ok) == IF ok THEN Tail(loc[w].promotable) ELSE <<>>

\* for mem in promotable: the records the loop has still to take after this
\* turn, whether the turn raised (ok false) or not
PromoteRest(w, ok) == Tail(loc[w].promotable)

\* the first half of a turn of the loop over promotable: memory.add for the
\* scanned record.  An exception ends the turn: the loop goes to the next
\* record or, after the last, the pass is answered.
PromoteAdd(w, add_ok) ==
    /\ pc[w] = "promote_add"
    /\ LET mem == Head(loc[w].promotable)
           added == PromoteAdds(mem, add_ok)
           rest == PromoteRest(w, added)
       IN /\ ltm' = IF added
                    THEN LtmAdd(mem.entry.messages, mem.entry.user_id,
                                mem.entry.agent_id, mem.entry.session_id)
                    ELSE ltm
          /\ ltm_next' = IF added THEN ltm_next + 1 ELSE ltm_next
          /\ IF added
             THEN /\ pc' = [pc EXCEPT ![w] = "promote_del"]
                  /\ UNCHANGED loc
             ELSE IF rest = <<>>
                  THEN /\ pc' = [pc EXCEPT ![w] = "idle"]
                       /\ loc' = [loc EXCEPT ![w] = IdleLoc]
                  ELSE /\ UNCHANGED pc
                       /\ loc' = [loc EXCEPT ![w].promotable = rest]
          /\ last' = [op |-> "promote_add", w |-> w, user |-> loc[w].user,
                      memory_ids |-> loc[w].ids, key |-> mem.redis_key, entry |-> mem.entry,
                      add_ok |-> add_ok, added |-> added,
                      done |-> ~added /\ rest = <<>>,
                      response |-> PromoteResponse(200, loc[w].promoted)]
    /\ UNCHANGED <<redis_client, memory, DbSession, embedder_cache, profiles, now, store, audit, scope>>

\* the key is deleted: the store is there and DEL went through
PromoteDeletes(del_ok) == redis_client /\ del_ok

\* the second half of the turn: redis_client.delete(mem["redis_key"]) and
\* promoted.append; an exception of DEL ends the turn before the append.
\* After the last turn the pass is answered.
PromoteDel(w, del_ok) ==
    /\ pc[w] = "promote_del"
    /\ LET mem == Head(loc[w].promotable)
           promoted == IF del_ok THEN Append(loc[w].promoted, mem.redis_key)
                       ELSE loc[w].promoted
           rest == PromoteRest(w, del_ok)
       IN /\ store' = IF PromoteDeletes(del_ok) THEN StoreDel(mem.redis_key) ELSE store
          /\ IF rest = <<>>
             THEN /\ pc' = [pc EXCEPT ![w] = "idle"]
                  /\ loc' = [loc EXCEPT ![w] = IdleLoc]
             ELSE /\ pc' = [pc EXCEPT ![w] = "promote_add"]
                  /\ loc' = [loc EXCEPT ![w].promotable = rest, ![w].promoted = promoted]
          /\ last' = [op |-> "promote_del", w |-> w, user |-> loc[w].user,
                      key |-> mem.redis_key, entry |-> mem.entry,
                      del_ok |-> del_ok,
                      done |-> rest = <<>>,
                      response |-> PromoteResponse(200, promoted)]
    /\ UNCHANGED <<redis_client, memory, DbSession, embedder_cache, profiles, now, ltm, ltm_next, audit, scope>>

(***************************************************************************)
(* DELETE /memories/{memory_id}, GET /stats, the profiles, GET /history    *)
(***************************************************************************)
\* 503 without the engine, 500 when memory.delete raises, else the record of
\* that id is gone from the engine
DeleteMemory(w, memory_id, ok) ==
    /\ pc[w] = "idle"
    /\ w \in scope.workers
    /\ "delete" \in scope.ops
    /\ memory \/ ok
    /\ ltm' = IF memory /\ ok THEN SelectSeq(ltm, LAMBDA r : r.id # memory_id) ELSE ltm
    /\ last' = [op |-> "delete", w |-> w, id |-> memory_id,
                status |-> IF ~memory THEN 503 ELSE IF ok THEN 200 ELSE 500,
                success |-> memory /\ ok]
    /\ UNCHANGED <<redis_client, memory, DbSession, embedder_cache, profiles, now,
                   store, ltm_next, audit, pc, loc, scope>>

\* the stats: a count that cannot be read stays 0
Stats(db_ok, keys_ok) ==
    [database |-> [available |-> DbSession,
                   history_count |-> IF DbSession /\ db_ok THEN Len(audit) ELSE 0],
     short_term |-> [available |-> redis_client,
                     count |-> IF redis_client /\ keys_ok
                               THEN Cardinality(Keys(SHORT_TERM_PREFIX \o <<"*">>))
                               ELSE 0],
     long_term |-> [available |-> memory]]

GetStats(w, db_ok, keys_ok) ==
    /\ pc[w] = "idle"
    /\ w \in scope.workers
    /\ "stats" \in scope.ops
    /\ DbSession \/ db_ok
    /\ redis_client \/ keys_ok
    /\ last' = [op |-> "stats", w |-> w, status |-> 200, stats |-> Stats(db_ok, keys_ok)]
    /\ UNCHANGED vars_but_last

\* the status of a handler that needs the database: 503 without the session
\* factory, 500 when a call on the session raises (nothing catches it)
DbStatus(ok) == IF ~DbSession THEN 503 ELSE IF ok THEN 200 ELSE 500

\* the profile of id in a table, as the handler returns it
ProfileResponse(table, id) ==
    IF id \in DOMAIN table THEN [exists |-> TRUE, id |-> id, profile |-> table[id]]
    ELSE [exists |-> FALSE, id |-> id]

\* GET /profiles/user/{user_id} and GET /profiles/agent/{agent_id}
GetProfile(w, kind, id, ok) ==
    /\ pc[w] = "idle"
    /\ w \in scope.workers
    /\ "profile" \in scope.ops
    /\ DbSession \/ ok
    /\ last' = IF DbStatus(ok) = 200
               THEN [op |-> "get_profile", w |-> w, kind |-> kind, status |-> 200,
                     response |-> ProfileResponse(profiles[kind], id)]
               ELSE [op |-> "get_profile", w |-> w, kind |-> kind,
                     status |-> DbStatus(ok)]
    /\ UNCHANGED vars_but_last

\* the table after the profile of id is created if it is not there and the
\* fields the request gives (those that are not None, <<>>) are set
PutInto(table, id, fields, blank) ==
    LET old == IF id \in DOMAIN table THEN table[id] ELSE blank
        new == [f \in DOMAIN old |->
                   IF f \in DOMAIN fields /\ fields[f] # <<>> THEN fields[f] ELSE old[f]]
    IN [x \in (DOMAIN table) \cup {id} |-> IF x = id THEN new ELSE table[x]]

\* a new UserProfile / AgentProfile row: every column None
BlankProfile(kind) ==
    IF kind = "user" THEN [display_name |-> <<>>, preferences |-> <<>>, last_seen |-> <<>>]
    ELSE [display_name |-> <<>>, personality |-> <<>>, private_notes |-> <<>>]

\* PUT /profiles/user/{user_id} and PUT /profiles/agent/{agent_id}; the user's
\* last_seen is set to the time of the request
PutProfile(w, kind, id, fields, ok) ==
    /\ pc[w] = "idle"
    /\ w \in scope.workers
    /\ "profile" \in scope.ops
    /\ DbSession \/ ok
    /\ DOMAIN fields \subseteq DOMAIN BlankProfile(kind)
    /\ LET given == IF kind = "user"
                    THEN [f \in (DOMAIN fields) \cup {"last_seen"} |->
                             IF f = "last_seen" THEN <<now>> ELSE fields[f]]
                    ELSE fields
       IN profiles' = IF DbStatus(ok) = 200
                      THEN [profiles EXCEPT
                               ![kind] = PutInto(@, id, given, BlankProfile(kind))]
                      ELSE profiles
    /\ last' = [op |-> "put_profile", w |-> w, kind |-> kind, id |-> id,
                status |-> DbStatus(ok), success |-> DbStatus(ok) = 200]
    /\ UNCHANGED <<redis_client, memory, DbSession, embedder_cache, now, store, ltm,
                   ltm_next, audit, pc, loc, scope>>

\* the rows of the audit log a history request selects, newest first
RECURSIVE HistoryRows(_, _, _, _)
HistoryRows(n, user_id, agent_id, operation) ==
    IF n = 0 THEN <<>>
    ELSE (IF /\ user_id = <<>> \/ audit[n].user_id = user_id
             /\ agent_id = <<>> \/ audit[n].agent_id = agent_id
             /\ operation = <<>> \/ <<audit[n].operation>> = operation
          THEN << [id |-> n, operation |-> audit[n].operation,
                   user_id |-> audit[n].user_id, agent_id |-> audit[n].agent_id,
                   memory_tier |-> audit[n].memory_tier] >>
          ELSE <<>>)
         \o HistoryRows(n - 1, user_id, agent_id, operation)

\* GET /history
GetHistory(w, user_id, agent_id, operation, limit, ok) ==
    /\ pc[w] = "idle"
    /\ w \in scope.workers
    /\ "history" \in scope.ops
    /\ DbSession \/ ok
    /\ limit >= 0
    /\ last' = IF DbStatus(ok) = 200
               THEN LET entries == PySlice(HistoryRows(Len(audit), user_id, agent_id,
                                                       operation), limit)
                    IN [op |-> "history", w |-> w, status |-> 200,
                        user |-> user_id, agent |-> agent_id, operation |-> operation,
                        limit |-> limit,
                        history |-> entries, count |-> Len(entries)]
               ELSE [op |-> "history", w |-> w, status |-> DbStatus(ok)]
    /\ UNCHANGED vars_but_last

\* values a profile request gives for a field: None or a text
FieldValues == {<<>>, <<"x">>}

(***************************************************************************)
(* GET /health.  The handler is a coroutine without an await, run by the   *)
(* one event loop of the process: a health check runs from its first line  *)
(* to its return before the next request is taken up, whoever sent it.     *)
(***************************************************************************)
\* what memory.embedding_model.embed("health check") can do: return a vector,
\* return an empty one, or raise
EmbedOutcomes == {<<"dims", 384>>, <<"dims", 768>>, <<"empty">>,
                  <<"raise", "timeout">>, <<"raise", "refused">>}

\* embedder_ok and embedder_info after the probe; without the engine nothing
\* is called
ProbeResult(outcome) ==
    IF ~memory THEN [ok |-> FALSE, info |-> <<>>]
    ELSE IF outcome[1] = "dims" THEN [ok |-> TRUE, info |-> outcome]
    ELSE IF outcome[1] = "empty"
         THEN [ok |-> FALSE, info |-> <<"error", "returned empty vector">>]
         ELSE [ok |-> FALSE, info |-> <<"error", outcome[2]>>]

\* a cache that is valid up to and including its expiry
CacheValid_Inclusive(t) == t <= embedder_cache.expires

\* if now < _embedder_cache["expires"]
CacheValid(t) == t < embedder_cache.expires

\* a refresh that leaves the info of the probe before in the cache
CacheAfterProbe_Torn(result, t) ==
    [embedder_cache EXCEPT !.ok = <<result.ok>>, !.expires = t + CacheTicks]

\* the three assignments to _embedder_cache after a probe
CacheAfterProbe(result, t) ==
    [ok |-> <<result.ok>>, info |-> result.info, expires |-> t + CacheTicks]

HealthCheck(w, ping_ok, outcome) ==
    /\ pc[w] = "idle"
    /\ w \in scope.workers
    /\ "health" \in scope.ops
    /\ redis_client \/ ping_ok
    /\ LET cached == CacheValid(now)
           probe == ProbeResult(outcome)
           cache == IF cached THEN embedder_cache ELSE CacheAfterProbe(probe, now)
           embedder_ok == cache.ok = <<TRUE>>
           redis_ok == redis_client /\ ping_ok
       IN /\ (~cached /\ memory) \/ outcome = <<"empty">>
          /\ embedder_cache' = cache
          /\ last' = [op |-> "health", w |-> w, status |-> 200,
                      cached |-> cached, probed |-> ~cached /\ memory,
                      probe |-> IF cached THEN <<>> ELSE <<probe>>,
                      response |->
                         [status |-> IF DbSession /\ redis_ok /\ memory /\ embedder_ok
                                     THEN "healthy" ELSE "degraded",
                          database |-> DbSession,
                          short_term_memory |-> redis_ok,
                          long_term_memory |-> memory,
                          embedder |-> embedder_ok,
                          embedder_details |-> cache.info]]
    /\ UNCHANGED <<redis_client, memory, DbSession, profiles, now, store, ltm,
                   ltm_next, audit, pc, loc, scope>>

(***************************************************************************)
(* The system                                                              *)
(***************************************************************************)
\* request.query: "TEA", "milk coffee"
Queries == {<<"T", "E", "A">>, <<"m", "i", "l", "k", " ", "c", "o", "f", "f", "e", "e">>}
Limits == {0, 10}

\* the agents and sessions a request of this run may name, or none
ScopeAgents == {NoAgent} \cup {p[2] : p \in scope.principals}

ScopeSessions == {NoSession} \cup {p[3] : p \in scope.principals}

\* the jumps of the clock: a tick, a period, and from the last tick observed
\* after a period to the first one observed before the next
Jumps == {1, scope.period, scope.period - scope.slack - scope.early}

Next ==
    \/ \E d \in Jumps : Tick(d)
    \/ \E w \in scope.workers, p \in scope.principals, m \in scope.messages,
          sto \in BOOLEAN, d \in {0, 1}, e \in {0, 1}, r \in BOOLEAN, g \in BOOLEAN :
          AddMemory(w, p[1], p[2], p[3], m, sto, d, e, r, g)
    \/ \E w \in scope.workers, l \in BOOLEAN, g2 \in BOOLEAN : AddLongTerm(w, l, g2)
    \/ \E w \in scope.workers, u \in UserIds, inc \in BOOLEAN, ok \in BOOLEAN :
          SearchBegin(w, u, inc, ok)
    \/ \E w \in scope.workers, u \in UserIds, inc \in BOOLEAN, ok \in BOOLEAN :
          UserBegin(w, u, inc, ok)
    \/ \E w \in scope.workers, ok \in BOOLEAN :
          \E k \in loc[w].keys : GetShortTermGet(w, k, ok)
    \/ \E w \in scope.workers, ok \in BOOLEAN : GetShortTermSet(w, ok)
    \/ \E w \in scope.workers, q \in Queries, a \in ScopeAgents, s \in ScopeSessions,
          lim \in Limits, ok \in BOOLEAN, k \in 0..MaxLtm :
          \E sc \in [1..k -> {<<9>>}] : SearchFinish(w, q, a, s, lim, ok, k, sc)
    \/ \E w \in scope.workers, lim \in {1, 50}, ok \in BOOLEAN : UserFinish(w, lim, ok)
    \/ \E w \in scope.workers, a \in AgentIds, lim \in {1, 50}, ok \in BOOLEAN :
          AgentMemories(w, a, lim, ok)
    \/ \E w \in scope.workers, u \in UserIds, ok \in BOOLEAN :
          PromoteBegin(w, u, NoIds, ok)
    \/ \E w \in scope.workers, ok \in BOOLEAN :
          \E k \in loc[w].keys : PromoteScanGet(w, k, ok)
    \/ \E w \in scope.workers, ok \in BOOLEAN : PromoteAdd(w, ok)
    \/ \E w \in scope.workers, ok \in BOOLEAN : PromoteDel(w, ok)
    \/ \E w \in scope.workers, id \in 1..MaxLtm, ok \in BOOLEAN : DeleteMemory(w, id, ok)
    \/ \E w \in scope.workers, ok1 \in BOOLEAN, ok2 \in BOOLEAN : GetStats(w, ok1, ok2)
    \/ \E w \in scope.workers, ok \in BOOLEAN : GetProfile(w, "user", UserA, ok)
    \/ \E w \in scope.workers, ok \in BOOLEAN : GetProfile(w, "agent", AgentG, ok)
    \/ \E w \in scope.workers, ok \in BOOLEAN, d \in FieldValues, v \in FieldValues :
          PutProfile(w, "user", UserA, [display_name |-> d, preferences |-> v], ok)
    \/ \E w \in scope.workers, ok \in BOOLEAN, d \in FieldValues, v \in FieldValues :
          PutProfile(w, "agent", AgentG,
                     [display_name |-> d, personality |-> v, private_notes |-> v], ok)
    \/ \E w \in scope.workers, u \in {NoUser, UserA}, o \in {<<>>, <<"add">>},
          lim \in {1, 100}, ok \in BOOLEAN :
          GetHistory(w, u, NoAgent, o, lim, ok)
    \/ \E w \in scope.workers, ok \in BOOLEAN, o \in EmbedOutcomes : HealthCheck(w, ok, o)

Spec == Init /\ [][Next]_vars

(***************************************************************************)
(* Requests run to their end                                               *)
(***************************************************************************)
\* the next step of the request worker w has in flight
Continue(w) ==
    \/ \E l \in BOOLEAN, g2 \in BOOLEAN : AddLongTerm(w, l, g2)
    \/ \E ok \in BOOLEAN : \E k \in loc[w].keys : GetShortTermGet(w, k, ok)
    \/ \E ok \in BOOLEAN : GetShortTermSet(w, ok)
    \/ \E q \in Queries, a \in ScopeAgents, s \in ScopeSessions, lim \in Limits,
          ok \in BOOLEAN, k \in 0..MaxLtm :
          \E sc \in [1..k -> {<<9>>}] : SearchFinish(w, q, a, s, lim, ok, k, sc)
    \/ \E lim \in {1, 50}, ok \in BOOLEAN : UserFinish(w, lim, ok)
    \/ \E ok \in BOOLEAN : \E k \in loc[w].keys : PromoteScanGet(w, k, ok)
    \/ \E ok \in BOOLEAN : PromoteAdd(w, ok)
    \/ \E ok \in BOOLEAN : PromoteDel(w, ok)

\* the event loop runs a handler it has started until the handler returns
SpecLive == Spec /\ \A w \in Workers : WF_vars(Continue(w))

(***************************************************************************)
(* The search on its own: a search that has read the ephemeral tier and    *)
(* now filters, asks the engine, merges, sorts and cuts, for every order   *)
(* of the entries read, every score of the engine and every limit          *)
(***************************************************************************)
\* entries read and engine results, at most this many of each
MaxMerge == 2

ScopeMerge ==
    [principals |-> {<<UserA, NoAgent, NoSession>>, <<UserA, AgentG, NoSession>>},
     messages |-> MessageLists,
     ops |-> {"search"},
     workers |-> {"w1"}, configs |-> {<<TRUE, TRUE, TRUE>>},
     max_store |-> MaxMerge + 1, max_ltm |-> MaxMerge, max_time |-> TicksPerSecond,
     period |-> TtlTicks, slack |-> MaxSlack, early |-> 0]

\* what get_short_term returns of what an add wrote, after its first read
ReadOnce(x) == [x EXCEPT !.entry.access_count = 1]

\* adds of one user before the search: in the first second at once, in the
\* first second with the clock going on between its readings, and in the
\* second
MergeEntries ==
    {ReadOnce(Written(UserA, NoAgent, NoSession, MsgTea, 0, 0, 0)),
     ReadOnce(Written(UserA, NoAgent, NoSession, MsgCoffee, 0, 1, 1)),
     ReadOnce(Written(UserA, NoAgent, NoSession, MsgTea, TicksPerSecond, 0, 0))}

\* the sequences of at most n different elements of S
DistinctSeqs(S, n) ==
    {q \in UNION {[1..k -> S] : k \in 0..n} :
        \A i \in 1..Len(q), j \in 1..Len(q) : i # j => q[i] # q[j]}

\* the store that holds what was written, each entry under the key its add
\* gave it
StoreOf(read) ==
    [k \in {read[i].key : i \in 1..Len(read)} |->
        read[CHOOSE j \in 1..Len(read) : read[j].key = k].entry]

\* n records of the engine: of the user alone, and of the user and an agent
EngineRecords(n) ==
    [i \in 1..n |-> [id |-> i, messages |-> IF i % 2 = 1 THEN MsgTea ELSE MsgCoffee,
                     user_id |-> UserA,
                     agent_id |-> IF i % 2 = 1 THEN NoAgent ELSE AgentG,
                     run_id |-> NoSession]]

InitMerge ==
    /\ scope = ScopeMerge
    /\ redis_client = TRUE /\ memory = TRUE /\ DbSession = TRUE
    /\ now = TicksPerSecond
    /\ \E read \in DistinctSeqs(MergeEntries, MaxMerge) :
          /\ store = StoreOf(read)
          /\ loc = [w \in Workers |->
                       IF w = "w1"
                       THEN [IdleLoc EXCEPT !.op = "search", !.user = UserA,
                                            !.include = TRUE,
                                            !.results = [i \in 1..Len(read) |->
                                                            read[i].entry]]
                       ELSE IdleLoc]
    /\ \E n \in 0..MaxMerge : ltm = EngineRecords(n) /\ ltm_next = n + 1
    /\ audit = <<>>
    /\ embedder_cache = NoCache
    /\ profiles = NoProfiles
    /\ pc = [w \in Workers |-> IF w = "w1" THEN "long_term" ELSE "idle"]
    /\ last = [op |-> "init"]

\* request.query: empty, a word of a message in another case, words of which
\* one is in a message, and the name of a role
MergeQueries == {<<>>, <<"T", "E", "A">>, <<"m", "i", "l", "k", " ", "c", "o", "f", "f", "e", "e">>, <<"U", "s", "e", "r">>}
MergeLimits == (0 - 2 * MaxMerge)..(2 * MaxMerge)

NextMerge ==
    \E w \in scope.workers, q \in MergeQueries, a \in AgentIds, lim \in MergeLimits,
       ok \in BOOLEAN, k \in 0..MaxMerge :
       \E sc \in [1..k -> EngineScores] : SearchFinish(w, q, a, NoSession, lim, ok, k, sc)

SpecMerge == InitMerge /\ [][NextMerge]_vars

(***************************************************************************)
(* Health checks of two clients of one server over two windows of the      *)
(* embedder cache                                                          *)
(***************************************************************************)
ScopeHealth ==
    [principals |-> {}, messages |-> {},
     ops |-> {"health"},
     workers |-> Workers, configs |-> AllConfigs,
     max_store |-> 0, max_ltm |-> 0, max_time |-> 2 * CacheTicks + MaxSlack,
     period |-> CacheTicks, slack |-> MaxSlack, early |-> 1]

InitHealth == scope = ScopeHealth /\ Startup /\ last = [op |-> "init"]

NextHealth ==
    \/ \E d \in Jumps : Tick(d)
    \/ \E w \in scope.workers, ok \in BOOLEAN, o \in EmbedOutcomes : HealthCheck(w, ok, o)

SpecHealth == InitHealth /\ [][NextHealth]_vars

(***************************************************************************)
(* Promote passes side by side.  A pass is one request of one server        *)
(* process; two processes started on the same Redis and the same engine     *)
(* share the store and the records and nothing else, so the commands of     *)
(* their passes and of their adds interleave.  The run starts from a store  *)
(* a server reaches by adds and reads: entries that are read                *)
(* PROMOTION_THRESHOLD times or not at all.                                 *)
(***************************************************************************)
ScopePromote ==
    [principals |-> {<<UserA, AgentG, NoSession>>}, messages |-> {MsgTea},
     ops |-> {"promote", "add"},
     workers |-> Workers, configs |-> {<<TRUE, TRUE, FALSE>>},
     max_store |-> MaxStore, max_ltm |-> 2 * MaxLtm, max_time |-> 0,
     period |-> TtlTicks, slack |-> 0, early |-> 0]

\* what an add wrote, as the store holds it after n reads
ReadTimes(x, n) == [x EXCEPT !.entry.access_count = n]

PromoteEntries ==
    {ReadTimes(Written(UserA, NoAgent, NoSession, m, 0, 0, 0), n) :
        m \in {MsgTea, MsgCoffee}, n \in {0, PROMOTION_THRESHOLD}}

\* the stores with at most one entry under a key
PromoteStores ==
    {[k \in {x.key : x \in S} |-> (CHOOSE x \in S : x.key = k).entry] :
        S \in {T \in SUBSET PromoteEntries :
                   \A x \in T, y \in T : x.key = y.key => x = y}}

\* memory_ids of a promote request: None, or the id of the tea entry
PromoteIds == {NoIds, <<{Written(UserA, NoAgent, NoSession, MsgTea, 0, 0, 0).key}>>}

InitPromote ==
    /\ scope = ScopePromote
    /\ redis_client = TRUE /\ memory = TRUE /\ DbSession = FALSE
    /\ now = 0
    /\ store \in PromoteStores
    /\ ltm = <<>> /\ ltm_next = 1
    /\ audit = <<>>
    /\ embedder_cache = NoCache
    /\ profiles = NoProfiles
    /\ pc = [w \in Workers |-> "idle"]
    /\ loc = [w \in Workers |-> IdleLoc]
    /\ last = [op |-> "init"]

NextPromote ==
    \/ \E w \in scope.workers, ids \in PromoteIds, ok \in BOOLEAN :
          PromoteBegin(w, UserA, ids, ok)
    \/ \E w \in scope.workers, ok \in BOOLEAN :
          \E k \in loc[w].keys : PromoteScanGet(w, k, ok)
    \/ \E w \in scope.workers, ok \in BOOLEAN : PromoteAdd(w, ok)
    \/ \E w \in scope.workers, ok \in BOOLEAN : PromoteDel(w, ok)
    \/ \E w \in scope.workers, p \in scope.principals, m \in scope.messages,
          sto \in BOOLEAN, r \in BOOLEAN :
          AddMemory(w, p[1], p[2], p[3], m, sto, 0, 0, r, TRUE)
    \/ \E w \in scope.workers, l \in BOOLEAN : AddLongTerm(w, l, TRUE)

SpecPromote == InitPromote /\ [][NextPromote]_vars

(***************************************************************************)
(* Properties                                                              *)
(***************************************************************************)
Range(q) == {q[i] : i \in 1..Len(q)}

\* C1: a promote pass deletes the key of a record exactly when the durable
\* add of the record succeeded: the turn goes on to the DEL exactly after a
\* successful add, the DEL takes the key off the store, and a turn whose add
\* failed leaves the store as it was.
C1_DeletedIffAdded ==
    [][/\ last'.op = "promote_add" =>
             /\ (pc'[last'.w] = "promote_del") <=> last'.added
             /\ store' = store
       /\ last'.op = "promote_del" => last'.key \notin DOMAIN store']_vars

\* C2: every entry of the ephemeral store has an expiry.
C2_EveryEntryExpires == \A k \in DOMAIN store : store[k].expires # NoExpiry

\* C3: the access count held under a key never decreases.
C3_CountNeverDecreases ==
    [][\A k \in DOMAIN store \cap DOMAIN store' :
          store'[k].access_count >= store[k].access_count]_vars

\* the entry belongs to the owner scope of a request for user_id
InOwnerScope(e, user_id) == user_id = <<>> \/ e.user_id = user_id

\* C4: a promote scan whose store commands succeed looks at the entries of
\* the requested owner scope, all of them and no other, and takes of them
\* exactly those whose access count has reached the threshold.
C4_ScanExact ==
    /\ (last.op \in {"scan_keys", "promote"} /\ memory /\ redis_client /\ last.keys_ok)
           => last.keys = {k \in DOMAIN store : InOwnerScope(store[k], last.user)}
    /\ (last.op = "scan_get" /\ last.ok /\ last.key \in DOMAIN store)
           => (last.taken <=> store[last.key].access_count >= PROMOTION_THRESHOLD)

\* the place of x in the list that was sorted
MergedPos(x) == CHOOSE i \in 1..Len(last.merged) : last.merged[i] = x

\* x stands before y in the order of the response: a higher score, a missing
\* score counting as 0, or the same score and an earlier place before the sort
RanksBefore(x, y) ==
    \/ SortKey(x) > SortKey(y)
    \/ SortKey(x) = SortKey(y) /\ MergedPos(x) < MergedPos(y)

\* the response of a search is in the order of the scores, ties as they came,
\* and holds the first results of that order
SortedStable ==
    LET final == last.response.memories
    IN /\ \A i \in 1..Len(final) : final[i] \in Range(last.merged)
       /\ \A i \in 1..Len(final), j \in 1..Len(final) :
             i < j => RanksBefore(final[i], final[j])
       /\ \A i \in 1..Len(final), j \in 1..Len(final) :
             (i < j /\ SortKey(final[i]) = SortKey(final[j]))
                 => ~(final[i].source = "long_term" /\ final[j].source = "short_term")
       /\ \A x \in Range(last.merged) \ Range(final) :
             \A i \in 1..Len(final) : RanksBefore(final[i], x)

\* C5, as stated: the response of a search is sorted by score, descending,
\* ties in their order before the sort, and is at most limit long, for every
\* limit.
C5_SortedWithinLimit ==
    last.op = "search" =>
        SortedStable /\ Len(last.response.memories) <= last.limit

\* C5, amended: the response of a search is sorted by score, descending, ties
\* in their order before the sort; for a limit of 0 or more it is the first
\* limit results of that order, so at most limit long; for a limit below 0 it
\* is that order without its last -limit results.
C5_SortedAndCut ==
    last.op = "search" =>
        /\ SortedStable
        /\ LET n == Len(last.merged)
               len == Len(last.response.memories)
           IN /\ last.limit >= 0 => len = (IF last.limit < n THEN last.limit ELSE n)
              /\ last.limit >= 0 => len <= last.limit
              /\ last.limit < 0 =>
                    len = (IF n + last.limit > 0 THEN n + last.limit ELSE 0)
              /\ last.response.count = len

\* a search cut by its limit, with a tie between the tiers and a result
\* without a score
C5_TieCut ==
    /\ last.op = "search"
    /\ last.limit > 0
    /\ Len(last.merged) > last.limit
    /\ \E i \in 1..Len(last.merged) : last.merged[i].score = <<>>
    /\ LET final == last.response.memories
       IN \E i \in 1..Len(final), j \in 1..Len(final) :
             /\ i < j
             /\ final[i].source = "short_term" /\ final[j].source = "long_term"
             /\ SortKey(final[i]) = SortKey(final[j])

\* C6: an add with short_term_only is answered without a call of the durable
\* engine: it never comes to the step of memory.add, leaves the engine's
\* records as they were and reports long_term false.
C6_ShortTermOnly ==
    [][/\ (last'.op = "add" /\ last'.short_term_only) =>
             /\ pc[last'.w] = "idle"
             /\ ~last'.ltm_called
             /\ ltm' = ltm /\ ltm_next' = ltm_next
             /\ ~last'.long_term
       /\ last'.op = "add_store" => ~last'.short_term_only]_vars

\* an add with short_term_only, written to the ephemeral store while the
\* engine is there
C6_KeptShortTerm ==
    /\ last.op = "add" /\ last.short_term_only
    /\ memory /\ last.short_term
    /\ Exists(FullKey(last.memory_key))
    /\ ltm = <<>>

\* an add of messages for user_id without short_term_only has returned
Added(user_id, messages) ==
    /\ last.op = "add" /\ ~last.short_term_only
    /\ last.user = user_id /\ last.messages = messages

\* a search of user_id's memories for a word of messages, both tiers asked for
\* and room for results, returns the memory, in the wording of either tier
Found(user_id, messages) ==
    (/\ last.op = "search" /\ last.status = 200
     /\ last.user = user_id /\ last.include /\ last.limit > 0
     /\ KeywordMatch(last.query, messages))
        => \E i \in 1..Len(last.response.memories) :
              \/ last.response.memories[i].memory = FormatMessagesAsMemory(messages)
              \/ last.response.memories[i].memory = EngineMemory(messages)

\* C7: once an add without short_term_only has returned, every later search
\* of the same owner for a term of the messages returns the memory.
C7_AddedIsFound ==
    \A user_id \in UserIds, messages \in MessageLists :
        [](Added(user_id, messages) => [](Found(user_id, messages)))

\* C8: an add returns 200 and success whatever the tiers do; short_term is
\* true exactly when the write to the ephemeral store went through, and then
\* the entry is in the store under the memory_key returned; long_term is true
\* exactly when the engine's add went through, and then the engine has one
\* record more; a failed write to the ephemeral store gives short_term false
\* and no memory_key, and the engine is called all the same.
C8_AddReports ==
    [][/\ (last'.op \in {"add_store", "add"} /\ pc[last'.w] = "idle") =>
             LET key == MemoryKey(last'.user, now, last'.messages)
             IN /\ last'.short_term <=> (redis_client /\ last'.redis_ok)
                /\ last'.short_term =>
                      /\ last'.memory_key = key
                      /\ FullKey(key) \in DOMAIN store'
                      /\ store'[FullKey(key)] =
                            NewEntry(last'.user, last'.agent, last'.session,
                                     last'.messages, now + last'.d,
                                     now + last'.d + last'.e)
                /\ ~last'.short_term => (last'.memory_key = <<>> /\ store' = store)
                /\ (last'.op = "add_store") <=> (~last'.short_term_only /\ memory)
                /\ ltm' = ltm
       /\ (last'.op = "add" /\ pc[last'.w] = "add_ltm") =>
             LET request == loc[last'.w].request[1]
             IN /\ last'.short_term = request.short_term
                /\ last'.memory_key = request.memory_key
                /\ last'.ltm_called
                /\ store' = store
       /\ last'.op = "add" =>
             /\ last'.status = 200 /\ last'.success
             /\ last'.ltm_called <=> (~last'.short_term_only /\ memory)
             /\ last'.long_term <=> (last'.ltm_called /\ last'.ltm_ok)
             /\ last'.long_term => Len(ltm') = Len(ltm) + 1
             /\ ~last'.long_term => ltm' = ltm]_vars

\* the write to the ephemeral store failed, the durable add went through
C8_DurableOnly ==
    /\ last.op = "add"
    /\ redis_client /\ ~last.redis_ok
    /\ ~last.short_term /\ last.memory_key = <<>>
    /\ last.long_term
    /\ \E i \in 1..Len(ltm) : ltm[i].messages = last.messages

\* C9: a promote request without the durable engine is answered 503 and
\* changes nothing: no scan, no turn of the loop, the store, the engine and
\* the audit log as they were.
C9_PromoteUnavailable ==
    [][(/\ last'.op \in {"promote", "scan_keys", "scan_get", "promote_add",
                         "promote_del"}
        /\ ~memory) =>
          /\ last'.op = "promote" /\ last'.response.status = 503
          /\ last'.response.promoted_count = 0
          /\ store' = store /\ ltm' = ltm /\ audit' = audit
          /\ pc' = pc /\ loc' = loc]_vars

\* promote answered 503 while an entry of the store is eligible
C9_Refused ==
    /\ last.op = "promote" /\ last.response.status = 503
    /\ \E k \in DOMAIN store : Eligible(store[k])

\* C10: agent retrieval returns records of the durable engine only, those of
\* the agent, and leaves the ephemeral store and every request as they were.
C10_AgentDurableOnly ==
    [][last'.op = "agent" =>
          /\ \A i \in 1..Len(last'.memories) :
                /\ \E r \in Range(ltm) : last'.memories[i] = EngineResult(r)
                /\ last'.memories[i].agent_id = last'.agent
          /\ store' = store /\ pc' = pc /\ loc' = loc]_vars

\* agent retrieval has returned the engine's record while the ephemeral
\* store holds an entry of the same agent
C10_AgentRead ==
    /\ last.op = "agent" /\ last.status = 200
    /\ last.memories # <<>>
    /\ \E k \in DOMAIN store : store[k].agent_id = last.agent

\* C11: a search is answered 200 whatever the tiers do.  A store that is
\* absent, not asked for, or a store command that raises, gives nothing of the
\* ephemeral tier to the search, which goes on: its response then holds
\* results of the durable engine only.  Without the engine, or when its search
\* raises, the response holds the ephemeral matches only, sorted and cut.
\* With nothing from either tier the response is the empty list, count 0.
C11_SearchDegrades ==
    [][/\ (last'.op \in {"keys", "get", "set"} /\ ~last'.ok) =>
              /\ pc'[last'.w] = "long_term"
              /\ loc'[last'.w].results = <<>>
       /\ (last'.op = "keys" /\ ~(redis_client /\ loc'[last'.w].include)) =>
              /\ pc'[last'.w] = "long_term"
              /\ loc'[last'.w].results = <<>>
       /\ last'.op = "search" =>
              LET read == loc[last'.w].results
                  shorts == ShortTermMatches(read, last'.query)
                  final == last'.response.memories
              IN /\ last'.status = 200
                 /\ last'.read = read
                 /\ read = <<>> =>
                       \A i \in 1..Len(final) :
                           /\ final[i].source = "long_term"
                           /\ \E r \in Range(LtmSearch(last'.user, last'.agent,
                                                         last'.session)) :
                                 final[i].id = <<"ltm", r.id>>
                 /\ (~memory \/ ~last'.ltm_ok) =>
                       last'.response =
                           SearchResponse(PySlice(SortByScoreDesc(shorts), last'.limit))
                 /\ (read = <<>> /\ (~memory \/ ~last'.ltm_ok)) =>
                       (final = <<>> /\ last'.response.count = 0)]_vars

\* a search whose read of the store failed although the store holds a
\* matching entry of the owner: it is answered from the durable engine
C11_DurableOnly ==
    /\ last.op = "search" /\ last.status = 200
    /\ redis_client /\ last.include
    /\ last.read = <<>>
    /\ \E k \in DOMAIN store :
          /\ store[k].user_id = last.user
          /\ KeywordMatch(last.query, store[k].messages)
    /\ last.response.count > 0
    /\ last.response.short_count = 0

\* C12: add, search, user retrieval, health, stats, the profile reads and
\* writes and the history are always answered 200; only promote, delete and
\* agent retrieval end in another status.
C12_OnlyThreeFail ==
    last.op \in {"add", "search", "user", "health", "stats", "get_profile",
                 "put_profile", "history"}
        => last.status = 200

\* C13: a health check made while the clock is before the cache's expiry
\* answers with the stored ok and info, calls no embedder and leaves the
\* cache as it is; a health check at or after the expiry (the first one
\* included) probes, stores the result of the probe, success or failure, and
\* sets the expiry CACHE_SECONDS after the probe.
C13_CacheWindow ==
    [][last'.op = "health" =>
          /\ last'.status = 200
          /\ now < embedder_cache.expires =>
                /\ last'.cached /\ ~last'.probed
                /\ embedder_cache' = embedder_cache
                /\ last'.response.embedder = (embedder_cache.ok = <<TRUE>>)
                /\ last'.response.embedder_details = embedder_cache.info
          /\ now >= embedder_cache.expires =>
                /\ ~last'.cached
                /\ last'.probed <=> memory
                /\ embedder_cache'.expires = now + CACHE_SECONDS * TicksPerSecond
                /\ embedder_cache'.ok = <<last'.probe[1].ok>>
                /\ embedder_cache'.info = last'.probe[1].info
                /\ last'.response.embedder = last'.probe[1].ok
                /\ last'.response.embedder_details = last'.probe[1].info]_vars

\* a failed probe answered from the cache in the last tick of its window
C13_LastCachedTick ==
    /\ last.op = "health" /\ last.cached
    /\ memory
    /\ embedder_cache.ok = <<FALSE>>
    /\ now = embedder_cache.expires - 1
    /\ embedder_cache.expires > CacheTicks

\* C14: a promote request that gives memory ids adds to the engine only
\* records whose key is among those ids; a request without ids takes every
\* eligible entry its scan reads.
C14_IdsSelect ==
    /\ (last.op = "promote_add" /\ last.added /\ last.memory_ids # NoIds)
           => last.key \in last.memory_ids[1]
    /\ (last.op = "scan_get" /\ last.ok /\ last.key \in DOMAIN store
            /\ last.memory_ids = NoIds)
           => (last.taken <=> Eligible(store[last.key]))

\* C15: in a promote pass every turn is for the first of the scanned records
\* still to take and takes that one off them and nothing else, so each is
\* attempted once; the pass goes on exactly while records are left, whether
\* the turn failed or not; and no step of a turn takes back what earlier
\* turns did: the engine's records and the keys reported so far stay, and
\* no key comes back into the store.
C15_EveryRecordOnce ==
    [][last'.op \in {"promote_add", "promote_del"} =>
          LET w == last'.w
              left == loc[w].promotable
              ends == last'.op = "promote_del" \/ ~last'.added
          IN /\ left # <<>> /\ last'.key = Head(left).redis_key
             /\ \A i \in 1..Len(left), j \in 1..Len(left) :
                    i # j => left[i].redis_key # left[j].redis_key
             /\ ~ends => (pc'[w] = "promote_del" /\ loc'[w].promotable = left)
             /\ ends =>
                   /\ pc'[w] = "promote_add" <=> Tail(left) # <<>>
                   /\ pc'[w] = "promote_add" => loc'[w].promotable = Tail(left)
                   /\ pc'[w] # "promote_add" => (pc'[w] = "idle" /\ last'.done)
             /\ Len(ltm') >= Len(ltm) /\ SubSeq(ltm', 1, Len(ltm)) = ltm
             /\ Len(last'.response.promoted) >= Len(loc[w].promoted)
             /\ SubSeq(last'.response.promoted, 1, Len(loc[w].promoted))
                    = loc[w].promoted
             /\ DOMAIN store' \subseteq DOMAIN store]_vars

\* the last turn of a pass failed after an earlier turn of the pass promoted
\* its record: that record is in the engine, off the store and reported
C15_FailureAfterPromotion ==
    /\ last.op = "promote_add" /\ last.done
    /\ ~last.added
    /\ Len(last.response.promoted) = 1
    /\ last.response.promoted[1] \notin DOMAIN store
    /\ last.key \in DOMAIN store
    /\ Len(ltm) = 1

\* C16: every turn of a promote pass is reported: the count of the response
\* goes up by one exactly when the durable add of the turn succeeded, so it
\* has gone up when the turn, after its add, comes to the end of its DEL.
C16_CountsDurableAdds ==
    [][/\ last'.op = "promote_del" =>
             last'.response.promoted_count = Len(loc[last'.w].promoted) + 1
       /\ (last'.op = "promote_add" /\ ~last'.added) =>
             last'.response.promoted_count = Len(loc[last'.w].promoted)]_vars
\* the engine holds a record of this entry: written by the add of a memory
\* that was not short-term only
InEngine(e) ==
    \E i \in 1..Len(ltm) :
        /\ ltm[i].messages = e.messages
        /\ ltm[i].user_id = e.user_id
        /\ ltm[i].agent_id = e.agent_id
        /\ ltm[i].run_id = e.session_id

\* C17: a promote turn makes no durable add for an entry the engine already
\* holds: a memory written to both tiers by its add is not added a second
\* time by a promote pass.
C17_NoSecondDurableAdd ==
    [][(last'.op = "promote_add" /\ InEngine(last'.entry)) => ltm' = ltm]_vars
\* the entry without its access count
Unread(e) == [e EXCEPT !.access_count = 0]

\* C18: an entry of the store goes away, or gives way to another entry under
\* its key, only when the clock reaches its expiry or by the DEL of a promote
\* turn for its key, which comes after the durable add of the turn; no add,
\* search, retrieval or delete removes or replaces an entry that exists.
C18_OnlyExpiryOrPromote ==
    [][\A k \in DOMAIN store :
          (k \notin DOMAIN store' \/ Unread(store'[k]) # Unread(store[k]))
              => \/ Expired(store[k], now')
                 \/ last'.op = "promote_del" /\ last'.key = k]_vars
\* the pair is what one probe produces: ok with the dimensions of its vector,
\* or not ok with its error or, without the engine, with nothing
OneProbe(ok, info) ==
    \E o \in EmbedOutcomes :
        \/ ok = <<TRUE>> /\ info = o /\ o[1] = "dims"
        \/ ok = <<FALSE>> /\ info = <<>>
        \/ ok = <<FALSE>> /\ info[1] = "error"

\* C19: health checks of several clients never see or leave a torn cache.  A
\* health check answers with the ok and info one probe produced together,
\* its own or the cached one; and a check that refreshes writes ok, info
\* and expiry of its own probe, all three, so after refreshes by several
\* clients the cache is that of the last client that refreshed.
C19_NoTornCache ==
    [][last'.op = "health" =>
          /\ OneProbe(embedder_cache'.ok, embedder_cache'.info)
          /\ last'.response.embedder = (embedder_cache'.ok = <<TRUE>>)
          /\ last'.response.embedder_details = embedder_cache'.info
          /\ \/ last'.cached /\ embedder_cache' = embedder_cache
             \/ /\ ~last'.cached
                /\ embedder_cache' = [ok |-> <<last'.probe[1].ok>>,
                                      info |-> last'.probe[1].info,
                                      expires |-> now + CacheTicks]]_vars

\* the second client is answered from the cache that a refresh at the start
\* of the second window wrote
C19_SecondClientCached ==
    /\ last.op = "health" /\ last.w = "w2" /\ last.cached
    /\ embedder_cache.expires = 2 * CacheTicks
    /\ embedder_cache.ok = <<TRUE>>
    /\ last.response.embedder_details = <<"dims", 768>>

\* C20: a promote turn for a record that another pass has promoted and
\* deleted since the scan still calls the durable add with the scanned copy:
\* when the add succeeds the engine gets one more record of the entry, and
\* when the DEL of the missing key does not raise the pass reports the key
\* as promoted.
C20_SecondPassAddsAgain ==
    [][/\ (/\ last'.op = "promote_add"
           /\ last'.key \notin DOMAIN store
           /\ last'.add_ok) =>
             /\ ltm' = Append(ltm, [id |-> ltm_next,
                                    messages |-> last'.entry.messages,
                                    user_id |-> last'.entry.user_id,
                                    agent_id |-> last'.entry.agent_id,
                                    run_id |-> last'.entry.session_id])
             /\ pc'[last'.w] = "promote_del"
       /\ (/\ last'.op = "promote_del"
           /\ last'.key \notin DOMAIN store
           /\ last'.del_ok) =>
             /\ last'.response.promoted = Append(loc[last'.w].promoted, last'.key)
             /\ last'.response.promoted_count = Len(loc[last'.w].promoted) + 1]_vars

\* two passes scanned the same record before either deleted it: the engine
\* holds two records of it and both passes list its key as promoted
C20_WrittenTwice ==
    /\ last.op = "promote_del" /\ last.w = "w2"
    /\ last.key \in Range(last.response.promoted)
    /\ pc["w1"] = "promote_add"
    /\ last.key \in Range(loc["w1"].promoted)
    /\ Cardinality({i \in 1..Len(ltm) : /\ ltm[i].messages = last.entry.messages
                                         /\ ltm[i].agent_id = NoAgent}) = 2
\* the tiers of the audit entries this step appended
NewTiers ==
    [i \in 1..(Len(audit') - Len(audit)) |-> audit'[Len(audit) + i].memory_tier]

\* the audit log only grows at its end
AuditAppendOnly == Len(audit') >= Len(audit) /\ SubSeq(audit', 1, Len(audit)) = audit

\* C21 as stated: the step of an add that writes the ephemeral store appends
\* an entry tagged short_term exactly when the write succeeded; the step of
\* the durable add, which comes after it and only for a memory that is not
\* short-term only, appends one tagged long_term exactly when the durable add
\* succeeded; no step changes or removes an audit entry.
C21_AuditPerTier ==
    [][/\ AuditAppendOnly
       /\ (last'.op \in {"add_store", "add"} /\ pc[last'.w] = "idle") =>
             NewTiers = (IF last'.short_term THEN <<"short_term">> ELSE <<>>)
       /\ (last'.op = "add" /\ pc[last'.w] = "add_ltm") =>
             NewTiers = (IF ~last'.short_term_only /\ last'.long_term
                         THEN <<"long_term">> ELSE <<>>)]_vars

\* C21, amended: the step of an add that writes the ephemeral store appends
\* an entry tagged short_term exactly when the write succeeded and the audit
\* insert for it went through (the database is there and the insert did not
\* raise); the step of the durable add, which comes after it and only for a
\* memory that is not short-term only, appends one tagged long_term exactly
\* when the durable add succeeded and its audit insert went through; no step
\* changes or removes an audit entry.
C21_AuditWhenLogged ==
    [][/\ AuditAppendOnly
       /\ (last'.op \in {"add_store", "add"} /\ pc[last'.w] = "idle") =>
             NewTiers = (IF last'.short_term /\ DbSession /\ last'.log_ok
                         THEN <<"short_term">> ELSE <<>>)
       /\ (last'.op = "add" /\ pc[last'.w] = "add_ltm") =>
             NewTiers = (IF /\ ~last'.short_term_only /\ last'.long_term
                            /\ DbSession /\ last'.log2_ok
                         THEN <<"long_term">> ELSE <<>>)
       /\ last'.op = "add_store" => pc'[last'.w] = "add_ltm"]_vars

\* both tiers were written and only the durable write is in the audit log
C21_OnlyLongTermLogged ==
    /\ last.op = "add" /\ last.short_term /\ last.long_term
    /\ ~last.log_ok /\ last.log2_ok
    /\ Len(audit) = 1 /\ audit[1].memory_tier = "long_term"
\* the text of the messages: their contents, one after the other with a
\* blank between them
RECURSIVE MessageText(_)
MessageText(messages) ==
    IF messages = <<>> THEN <<>>
    ELSE IF Len(messages) = 1 THEN Head(messages).content
    ELSE Head(messages).content \o <<" ">> \o MessageText(Tail(messages))

\* the lower-cased query, or one of its words, is in the lower-cased text
TextMatch(query, text) ==
    \/ Contains(Lower(text), Lower(query))
    \/ \E i \in 1..Len(Split(Lower(query))) :
           Contains(Lower(text), Split(Lower(query))[i])

\* C22: an entry read for a search is among the candidates of the search
\* exactly when the lower-cased query, or one of its words, is in the text of
\* the entry's messages; every ephemeral candidate has score 0.8 and source
\* short_term.
C22_MatchesMessageText ==
    last.op = "search" =>
        /\ \A i \in 1..Len(last.read) :
              ShortTermResponse(last.read[i]) \in Range(last.merged)
                  <=> TextMatch(last.query, MessageText(last.read[i].messages))
        /\ \A j \in 1..Len(last.merged) :
              last.merged[j].source = "short_term"
                  => last.merged[j].score = <<ShortTermScore>>

\* C23: the ephemeral read of a search or a user retrieval for an owner
\* returns entries of that owner only, and no entry of an owner whose id
\* merely starts with the id asked for.
C23_ReadOwnEntriesOnly ==
    (last.op \in {"search", "user"} /\ last.user # NoUser)
        => \A i \in 1..Len(last.read) : last.read[i].user_id = last.user

\* C24: the created_at stored under a key never changes while the key
\* exists, whatever the step: a read, a promote scan or a later add.
C24_CreatedAtFixed ==
    [][\A k \in DOMAIN store \cap DOMAIN store' :
          store'[k].created_at = store[k].created_at]_vars
\* the value stored for the entry, which does not hold the expiry of its key
Value(e) == [e EXCEPT !.expires = NoExpiry]

\* the value of the entry is one of the values get_short_term returned
WasRead(e, read) == \E i \in 1..Len(read) : Value(read[i]) = Value(e)

\* no entry that stays in the store changes its access count in this step
CountsUnchanged ==
    \A k \in DOMAIN store \cap DOMAIN store' :
        store'[k].access_count = store[k].access_count

\* C25 as stated: after a search with include_short_term every entry of the
\* store in the owner scope of the request has been read and incremented by
\* it, whatever the query and the limit; a promote scan and the steps of a
\* search without include_short_term change no access count.
C25_EverySearchIncrements ==
    [][/\ (last'.op = "search" /\ last'.include) =>
             \A k \in DOMAIN store' :
                 InOwnerScope(store'[k], last'.user) => WasRead(store'[k], last'.read)
       /\ last'.op \in {"promote", "scan_keys", "scan_get", "promote_add",
                       "promote_del"} => CountsUnchanged
       /\ (last'.op \in {"keys", "search"} /\ ~loc'[last'.w].include
               /\ ~loc[last'.w].include) => CountsUnchanged]_vars

\* C25, amended: each SET of the read that goes through adds one to the
\* access count of its entry and touches no other entry; a search with
\* include_short_term whose store commands all went through (its read is
\* not empty) has read and incremented every entry of the store in its owner
\* scope, whatever the query and the limit; a promote scan and the steps of
\* a request without include_short_term change no access count.
C25_SearchIncrementsWhenRead ==
    [][/\ (last'.op = "set" /\ last'.ok /\ last'.key \in DOMAIN store) =>
             /\ store'[last'.key].access_count = store[last'.key].access_count + 1
             /\ \A k \in DOMAIN store \ {last'.key} :
                    k \in DOMAIN store' /\ store'[k] = store[k]
       /\ (last'.op = "search" /\ last'.include /\ last'.read # <<>>) =>
             \A k \in DOMAIN store' :
                 InOwnerScope(store'[k], last'.user) => WasRead(store'[k], last'.read)
       /\ last'.op \in {"promote", "scan_keys", "scan_get", "promote_add",
                       "promote_del"} => CountsUnchanged
       /\ (last'.op \in {"keys", "search"} /\ ~loc'[last'.w].include
               /\ ~loc[last'.w].include) => CountsUnchanged
       /\ last'.op = "set" => loc[last'.w].include]_vars

\* the third search of an owner's scope made an entry eligible that does not
\* match the query and is not in the response
C25_EligibleUnmatched ==
    /\ last.op = "search" /\ last.include
    /\ last.user = UserA
    /\ last.response.count = 0
    /\ Len(last.read) = 1
    /\ ~KeywordMatch(last.query, last.read[1].messages)
    /\ last.read[1].access_count = PROMOTION_THRESHOLD
    /\ \E k \in DOMAIN store : WasRead(store[k], last.read) /\ Eligible(store[k])

\* C26: the expiry of a key is fixed when an add writes it, 24 hours after
\* the write, and no other step sets or changes one: a read or a promote
\* scan leaves every key of the store with the expiry it had and brings no
\* key into the store; so an entry that is not promoted is gone when the
\* clock reaches the expiry its add gave it.
C26_ExpiryFixed ==
    [][/\ (last'.op \in {"add_store", "add"} /\ pc[last'.w] = "idle"
              /\ last'.short_term) =>
             store'[FullKey(last'.memory_key)].expires
                 = now' + SHORT_TERM_TTL_HOURS * SecondsPerHour * TicksPerSecond
       /\ \A k \in DOMAIN store' :
             \/ /\ last'.op \in {"add_store", "add"} /\ pc[last'.w] = "idle"
                /\ k = FullKey(last'.memory_key)
             \/ /\ k \in DOMAIN store
                /\ store'[k].expires = store[k].expires
       /\ \A k \in DOMAIN store' : now' < store'[k].expires]_vars
====
